---- MODULE Spec2Model ----
(***************************************************************************)
(* Model of hackathon_bot/payloads.py: the from_json decoders of the raw   *)
(* records and the response payload dataclasses.                           *)
(*                                                                         *)
(* Representation of Python values                                         *)
(*   - every Python object is a record with a field cls naming its type:   *)
(*     a dict is [cls |-> "dict", k1 |-> v1, ...], a dataclass instance is *)
(*     [cls |-> "RawPlayer", id |-> ..., ...];                             *)
(*   - a list or tuple is a sequence;                                      *)
(*   - a scalar (str, int, bool, None) held in a scalar field is a string  *)
(*     token: "p1", "0", "1", and None for Python's None;                  *)
(*   - None or a str held where an object can also be held is NoneObj or   *)
(*     Str(s);                                                             *)
(*   - an occupant tag is a sequence of characters, because                *)
(*     humps.pascalize works on the characters.                            *)
(* A call returns either Return(v) or Raise(e); an operator that models a  *)
(* from_json also gives the input mapping as the call leaves it, because   *)
(* the decoders write into the mapping they are given.                     *)
(***************************************************************************)
EXTENDS Integers, Sequences, FiniteSets, TLC

\* ---------------------------------------------------------------- bounds
\* from_json calls made on one input tree
MaxCalls == 2
\* occupant objects in one tile of an input map
MaxOcc == 2
\* zones in an input map
MaxZones == 1
\* players in an input players list
MaxPlayers == 1
\* the longest command line
MaxArgs == 4

\* ---------------------------------------------------------- Python values
None == "None"
NoneObj == [cls |-> "NoneType"]
Str(s) == [cls |-> "str", value |-> s]
EmptyDict == [cls |-> "dict"]

Return(v) == [ok |-> TRUE, err |-> "", val |-> v]
Raise(e) == [ok |-> FALSE, err |-> e, val |-> NoneObj]

IsDict(d) == d.cls = "dict"
Keys(d) == DOMAIN d \ {"cls"}
\* dict.pop(k) / del: the mapping without key k
Pop(d, k) == [x \in DOMAIN d \ {k} |-> d[x]]
\* d[k] = v
SetItem(d, k, v) == [x \in DOMAIN d \cup {k} |-> IF x = k THEN v ELSE d[x]]
\* d.get(k, default)
Get(d, k, default) == IF k \in DOMAIN d THEN d[k] ELSE default

\* ------------------------------------------------------- humps.pascalize
LowerChars == <<"a","b","c","d","e","f","g","h","i","j","k","l","m",
                "n","o","p","q","r","s","t","u","v","w","x","y","z">>
UpperChars == <<"A","B","C","D","E","F","G","H","I","J","K","L","M",
                "N","O","P","Q","R","S","T","U","V","W","X","Y","Z">>
Range(q) == {q[i] : i \in DOMAIN q}
IsLowerChar(c) == c \in Range(LowerChars)
IsUpperChar(c) == c \in Range(UpperChars)
IsDigitChar(c) == c \in {"0","1","2","3","4","5","6","7","8","9"}
\* the characters the regular expressions of humps treat as separators
IsSep(c) == c \in {"_", "-"}
ToUpper(c) ==
    IF IsLowerChar(c)
    THEN UpperChars[CHOOSE i \in DOMAIN LowerChars : LowerChars[i] = c]
    ELSE c
ToLower(c) ==
    IF IsUpperChar(c)
    THEN LowerChars[CHOOSE i \in DOMAIN UpperChars : UpperChars[i] = c]
    ELSE c
\* str.isupper(): at least one cased character and no lowercase one
StrIsUpper(s) ==
    /\ \E i \in DOMAIN s : IsUpperChar(s[i])
    /\ \A i \in DOMAIN s : ~IsLowerChar(s[i])
\* str.isnumeric()
StrIsNumeric(s) == Len(s) > 0 /\ \A i \in DOMAIN s : IsDigitChar(s[i])
\* PASCAL_RE.sub(_replace_fn, s): the first character of every run of
\* non-separators is upper-cased
CapitalizeRuns(s) ==
    [i \in DOMAIN s |->
        IF ~IsSep(s[i]) /\ (i = 1 \/ IsSep(s[i-1])) THEN ToUpper(s[i]) ELSE s[i]]
\* position i lies in a run of separators that UNDERSCORE_RE matches: the
\* run has a non-separator before it and a non-separator after it
InMatchedRun(s, i) ==
    /\ IsSep(s[i])
    /\ \E j \in 1..(i-1) : ~IsSep(s[j])
    /\ \E j \in (i+1)..Len(s) : ~IsSep(s[j])
RECURSIVE JoinRuns(_, _)
\* UNDERSCORE_RE.sub(lambda m: m.group(0)[-1].upper(), s), from position i on
JoinRuns(s, i) ==
    IF i > Len(s) THEN <<>>
    ELSE IF InMatchedRun(s, i) THEN JoinRuns(s, i + 1)
    ELSE IF i > 1 /\ InMatchedRun(s, i - 1)
         THEN <<ToUpper(s[i])>> \o JoinRuns(s, i + 1)
         ELSE <<s[i]>> \o JoinRuns(s, i + 1)
camelize(s) ==
    IF StrIsUpper(s) \/ StrIsNumeric(s) THEN s
    ELSE LET t == IF Len(s) # 0 /\ ~StrIsUpper(SubSeq(s, 1, IF Len(s) < 2 THEN Len(s) ELSE 2))
                  THEN <<ToLower(s[1])>> \o Tail(s)
                  ELSE s
         IN  JoinRuns(t, 1)
pascalize(s) ==
    IF StrIsUpper(s) \/ StrIsNumeric(s) THEN s
    ELSE LET t == camelize(CapitalizeRuns(s))
         IN  IF Len(t) # 0 THEN <<ToUpper(t[1])>> \o Tail(t) ELSE t

\* ------------------------------------------------- the module's namespace
\* globals().get(name): the class bound to a Raw... name of the module, or
\* None. No other global of the module has a name starting with Raw.
GlobalsGet(name) ==
    CASE name = <<"R","a","w","P","l","a","y","e","r">> -> "RawPlayer"
      [] name = <<"R","a","w","M","a","p">> -> "RawMap"
      [] name = <<"R","a","w","T","i","l","e","O","b","j","e","c","t">> -> "RawTileObject"
      [] name = <<"R","a","w","T","i","l","e","E","n","t","i","t","y">> -> "RawTileEntity"
      [] name = <<"R","a","w","W","a","l","l">> -> "RawWall"
      [] name = <<"R","a","w","B","u","l","l","e","t">> -> "RawBullet"
      [] name = <<"R","a","w","T","a","n","k">> -> "RawTank"
      [] name = <<"R","a","w","T","u","r","r","e","t">> -> "RawTurret"
      [] name = <<"R","a","w","Z","o","n","e">> -> "RawZone"
      [] OTHER -> None
\* issubclass(c, RawTileEntity): a class is a subclass of itself
IsTileEntitySubclass(c) == c \in {"RawTileEntity", "RawWall", "RawBullet", "RawTank"}

\* ------------------------------------------------------------ dataclasses
\* New giving None to a missing required field as well
New_default_missing(c, req, opt, json_data) ==
    IF ~IsDict(json_data) THEN Raise("TypeError")
    ELSE IF ~(Keys(json_data) \subseteq req \cup opt) THEN Raise("TypeError")
    ELSE Return([k \in req \cup opt \cup {"cls"} |->
                    IF k = "cls" THEN c
                    ELSE IF k \in DOMAIN json_data THEN json_data[k] ELSE None])
\* New with 0 for the default of the optional fields
New_zero_default(c, req, opt, json_data) ==
    IF ~IsDict(json_data) THEN Raise("TypeError")
    ELSE IF ~(Keys(json_data) \subseteq req \cup opt) THEN Raise("TypeError")
    ELSE IF ~(req \subseteq Keys(json_data)) THEN Raise("TypeError")
    ELSE Return([k \in req \cup opt \cup {"cls"} |->
                    IF k = "cls" THEN c
                    ELSE IF k \in DOMAIN json_data THEN json_data[k] ELSE "0"])
\* New with an __init__ that takes **kwargs and drops the undeclared ones
New_ignore_extra(c, req, opt, json_data) ==
    IF ~IsDict(json_data) THEN Raise("TypeError")
    ELSE IF ~(req \subseteq Keys(json_data)) THEN Raise("TypeError")
    ELSE Return([k \in req \cup opt \cup {"cls"} |->
                    IF k = "cls" THEN c
                    ELSE IF k \in DOMAIN json_data THEN json_data[k] ELSE None])
\* cls(**json_data) for a dataclass with the required fields req and the
\* optional fields opt (each defaulting to None). ** needs a mapping; the
\* generated __init__ rejects an undeclared keyword and a missing required
\* one; a missing optional field takes its default.
New(c, req, opt, json_data) ==
    IF ~IsDict(json_data) THEN Raise("TypeError")
    ELSE IF ~(Keys(json_data) \subseteq req \cup opt) THEN Raise("TypeError")
    ELSE IF ~(req \subseteq Keys(json_data)) THEN Raise("TypeError")
    ELSE Return([k \in req \cup opt \cup {"cls"} |->
                    IF k = "cls" THEN c
                    ELSE IF k \in DOMAIN json_data THEN json_data[k] ELSE None])

\* what a from_json gives: its outcome, and its argument as the call left it
Out(r, j) == [res |-> r, json |-> j]

ServerSettings(kwargs) ==
    New("ServerSettings",
        {"grid_dimension", "number_of_players", "seed", "ticks",
         "broadcast_interval", "eager_broadcast"}, {}, kwargs)

RawPlayer(kwargs) ==
    New("RawPlayer", {"id", "nickname", "color"},
        {"score", "ping", "ticks_to_regen"}, kwargs)
RawPlayer_from_json(json_data) == Out(RawPlayer(json_data), json_data)

RawWall_from_json(json_data) == Out(New("RawWall", {}, {}, json_data), json_data)

RawBullet_from_json(json_data) ==
    Out(New("RawBullet", {"id"}, {"speed", "direction"}, json_data), json_data)

RawTurret_from_json(json_data) ==
    Out(New("RawTurret", {"direction"},
            {"bullet_count", "ticks_to_regen_bullet"}, json_data), json_data)

\* json_data["turret"] = t, the decoded turret; return cls(**json_data)
RawTank_set_turret(json_data, t) ==
    IF ~t.res.ok THEN Out(t.res, json_data)
    ELSE Out(New("RawTank", {"owner_id", "direction", "turret"}, {"health"},
                 SetItem(json_data, "turret", t.res.val)),
             SetItem(json_data, "turret", t.res.val))
RawTank_from_json(json_data) ==
    IF ~IsDict(json_data) THEN Out(Raise("TypeError"), json_data)
    ELSE IF "turret" \notin Keys(json_data) THEN Out(Raise("KeyError"), json_data)
    ELSE RawTank_set_turret(json_data, RawTurret_from_json(json_data.turret))

\* the abstract classmethod has a docstring for a body: called on the class
\* it returns None
RawTileEntity_from_json(json_data) == Out(Return(NoneObj), json_data)

\* EntityFromJson with the wall decoder taken for every class
EntityFromJson_wall(payload_class, json_data) == RawWall_from_json(json_data)
\* payload_class.from_json(...)
EntityFromJson(payload_class, json_data) ==
    CASE payload_class = "RawWall" -> RawWall_from_json(json_data)
      [] payload_class = "RawBullet" -> RawBullet_from_json(json_data)
      [] payload_class = "RawTank" -> RawTank_from_json(json_data)
      [] payload_class = "RawTileEntity" -> RawTileEntity_from_json(json_data)

\* return cls(obj_type, entity): j1 is json_data after the pop and e what
\* payload_class.from_json gave; a payload held by j1 keeps what the call
\* wrote into it
RawTileObject_return(obj_type, j1, e) ==
    Out(IF ~e.res.ok THEN e.res
        ELSE Return([cls |-> "RawTileObject", type |-> obj_type, entity |-> e.res.val]),
        IF "payload" \in Keys(j1) THEN SetItem(j1, "payload", e.json) ELSE j1)
\* the lookup of the class and the check on it
RawTileObject_resolve(obj_type, j1, payload_class) ==
    IF payload_class = None \/ ~IsTileEntitySubclass(payload_class)
    THEN Out(Raise("ValueError"), j1)
    ELSE RawTileObject_return(obj_type, j1,
            EntityFromJson(payload_class, Get(j1, "payload", EmptyDict)))
\* RawTileObject_from_json reading json_data["type"] instead of popping it
RawTileObject_from_json_keep(json_data) ==
    IF ~IsDict(json_data) THEN Out(Raise("AttributeError"), json_data)
    ELSE IF "type" \notin Keys(json_data) THEN Out(Raise("KeyError"), json_data)
    ELSE RawTileObject_resolve(json_data.type, json_data,
            GlobalsGet(<<"R", "a", "w">> \o pascalize(json_data.type)))
RawTileObject_from_json(json_data) ==
    IF ~IsDict(json_data) THEN Out(Raise("AttributeError"), json_data)
    ELSE IF "type" \notin Keys(json_data) THEN Out(Raise("KeyError"), json_data)
    ELSE RawTileObject_resolve(json_data.type, Pop(json_data, "type"),
            GlobalsGet(<<"R", "a", "w">> \o pascalize(json_data.type)))

\* RawZone_build with retaken_by_id read from the captured_by_id sub-field
RawZone_build_swapped(j1, status) ==
    LET j2 == SetItem(j1, "status", Str(status.type))
        j3 == SetItem(j2, "player_id", Get(status, "player_id", None))
        j4 == SetItem(j3, "captured_by_id", Get(status, "captured_by_id", None))
        j5 == SetItem(j4, "retaken_by_id", Get(status, "captured_by_id", None))
        j6 == SetItem(j5, "remaining_ticks", Get(status, "remaining_ticks", None))
    IN  Out(New("RawZone", {"x", "y", "width", "height", "index", "status"},
                {"player_id", "captured_by_id", "retaken_by_id", "remaining_ticks"},
                j6), j6)
\* the status tag replaces the status object and the four status sub-fields
\* are read with status.get(..., None); return cls(**json_data)
RawZone_build(j1, status) ==
    LET j2 == SetItem(j1, "status", Str(status.type))
        j3 == SetItem(j2, "player_id", Get(status, "player_id", None))
        j4 == SetItem(j3, "captured_by_id", Get(status, "captured_by_id", None))
        j5 == SetItem(j4, "retaken_by_id", Get(status, "retaken_by_id", None))
        j6 == SetItem(j5, "remaining_ticks", Get(status, "remaining_ticks", None))
    IN  Out(New("RawZone", {"x", "y", "width", "height", "index", "status"},
                {"player_id", "captured_by_id", "retaken_by_id", "remaining_ticks"},
                j6), j6)
\* status = json_data.pop("status", {}), then status["type"]
RawZone_pop_status(j1, status) ==
    IF ~IsDict(status) THEN Out(Raise("TypeError"), j1)
    ELSE IF "type" \notin Keys(status) THEN Out(Raise("KeyError"), j1)
    ELSE RawZone_build(j1, status)
\* RawZone_from_json with a check of the status tag against the known tags
RawZone_from_json_checked(json_data) ==
    IF ~IsDict(json_data) THEN Out(Raise("AttributeError"), json_data)
    ELSE IF /\ IsDict(Get(json_data, "status", EmptyDict))
            /\ "type" \in Keys(Get(json_data, "status", EmptyDict))
            /\ json_data.status.type \notin
                  {"neutral", "being_captured", "captured", "being_contested",
                   "being_retaken"}
         THEN Out(Raise("ValueError"), Pop(json_data, "status"))
         ELSE RawZone_pop_status(Pop(json_data, "status"),
                                 Get(json_data, "status", EmptyDict))
RawZone_from_json(json_data) ==
    IF ~IsDict(json_data) THEN Out(Raise("AttributeError"), json_data)
    ELSE RawZone_pop_status(Pop(json_data, "status"),
                            Get(json_data, "status", EmptyDict))

\* tuple(f(x) for x in s), one step: h is what f gave for the head of s, tl
\* the rest of s and t what the loop gives for tl. The elements are decoded
\* in order and the first exception ends the loop; the elements decoded so
\* far keep what their decoding wrote into them.
\* TupleStep with a loop that drops an element whose decoding fails and goes on
TupleStep_skip(h, tl, t) ==
    IF ~h.res.ok THEN Out(t.res, <<h.json>> \o t.json)
    ELSE Out(IF t.res.ok THEN Return(<<h.res.val>> \o t.res.val) ELSE t.res,
             <<h.json>> \o t.json)
\* TupleStep with each decoded element put behind those that follow it
TupleStep_reversed(h, tl, t) ==
    IF ~h.res.ok THEN Out(h.res, <<h.json>> \o tl)
    ELSE Out(IF t.res.ok THEN Return(t.res.val \o <<h.res.val>>) ELSE t.res,
             <<h.json>> \o t.json)
TupleStep(h, tl, t) ==
    IF ~h.res.ok THEN Out(h.res, <<h.json>> \o tl)
    ELSE Out(IF t.res.ok THEN Return(<<h.res.val>> \o t.res.val) ELSE t.res,
             <<h.json>> \o t.json)
EmptyTuple == Out(Return(<<>>), <<>>)

RECURSIVE TileFromJson(_)
\* tuple(RawTileObject.from_json(obj) for obj in tile)
TileFromJson(tile) ==
    IF tile = <<>> THEN EmptyTuple
    ELSE TupleStep(RawTileObject_from_json(Head(tile)), Tail(tile),
                   TileFromJson(Tail(tile)))
RECURSIVE RowFromJson(_)
\* tuple(tuple(...) for tile in row)
RowFromJson(row) ==
    IF row = <<>> THEN EmptyTuple
    ELSE TupleStep(TileFromJson(Head(row)), Tail(row), RowFromJson(Tail(row)))
RECURSIVE TilesFromJson(_)
\* tuple(tuple(...) for row in json_data["tiles"])
TilesFromJson(tiles) ==
    IF tiles = <<>> THEN EmptyTuple
    ELSE TupleStep(RowFromJson(Head(tiles)), Tail(tiles), TilesFromJson(Tail(tiles)))
RECURSIVE ZonesFromJson(_)
\* tuple(RawZone.from_json(zone) for zone in json_data["zones"])
ZonesFromJson(zones) ==
    IF zones = <<>> THEN EmptyTuple
    ELSE TupleStep(RawZone_from_json(Head(zones)), Tail(zones), ZonesFromJson(Tail(zones)))
RECURSIVE PlayersFromJson(_)
\* tuple(RawPlayer.from_json(player) for player in json_data["players"])
PlayersFromJson(players) ==
    IF players = <<>> THEN EmptyTuple
    ELSE TupleStep(RawPlayer_from_json(Head(players)), Tail(players),
                   PlayersFromJson(Tail(players)))

\* return cls(**json_data), once tiles and zones are in place
RawMap_finish(j2) ==
    IF "visibility" \notin Keys(j2) THEN Out(Raise("KeyError"), j2)
    ELSE Out(New("RawMap", {"tiles", "zones", "visibility"}, {}, j2), j2)
\* json_data["zones"] = z, the tuple of the decoded zones
RawMap_set_zones(j1, z) ==
    IF ~z.res.ok THEN Out(z.res, SetItem(j1, "zones", z.json))
    ELSE RawMap_finish(SetItem(j1, "zones", z.res.val))
\* json_data["tiles"] = t, the tuple of the decoded rows; then the zones
RawMap_set_tiles(json_data, t) ==
    IF ~t.res.ok THEN Out(t.res, SetItem(json_data, "tiles", t.json))
    ELSE IF "zones" \notin Keys(json_data)
         THEN Out(Raise("KeyError"), SetItem(json_data, "tiles", t.res.val))
         ELSE RawMap_set_zones(SetItem(json_data, "tiles", t.res.val),
                               ZonesFromJson(json_data.zones))
RawMap_from_json(json_data) ==
    IF ~IsDict(json_data) THEN Out(Raise("TypeError"), json_data)
    ELSE IF "tiles" \notin Keys(json_data) THEN Out(Raise("KeyError"), json_data)
    ELSE RawMap_set_tiles(json_data, TilesFromJson(json_data.tiles))

ConnectionRejectedPayload_from_json(json_data) ==
    Out(New("ConnectionRejectedPayload", {"reason"}, {}, json_data), json_data)

\* LobbyDataPayload_set_settings with a check that player_id is the id of
\* a listed player before the payload is built
LobbyDataPayload_set_settings_checked(j1, s) ==
    IF ~s.ok THEN Out(s, j1)
    ELSE IF /\ "player_id" \in Keys(j1)
            /\ j1.player_id \notin {j1.players[n].id : n \in DOMAIN j1.players}
         THEN Out(Raise("ValueError"), SetItem(j1, "server_settings", s.val))
         ELSE Out(New("LobbyDataPayload", {"player_id", "players", "server_settings"}, {},
                      SetItem(j1, "server_settings", s.val)),
                  SetItem(j1, "server_settings", s.val))
\* json_data["server_settings"] = s; return cls(**json_data)
LobbyDataPayload_set_settings(j1, s) ==
    IF ~s.ok THEN Out(s, j1)
    ELSE Out(New("LobbyDataPayload", {"player_id", "players", "server_settings"}, {},
                 SetItem(j1, "server_settings", s.val)),
             SetItem(j1, "server_settings", s.val))
\* json_data["players"] = p, the tuple of the decoded players
LobbyDataPayload_set_players(json_data, p) ==
    IF ~p.res.ok THEN Out(p.res, json_data)
    ELSE IF "server_settings" \notin Keys(json_data)
         THEN Out(Raise("KeyError"), SetItem(json_data, "players", p.res.val))
         ELSE LobbyDataPayload_set_settings(SetItem(json_data, "players", p.res.val),
                                            ServerSettings(json_data.server_settings))
LobbyDataPayload_from_json(json_data) ==
    IF ~IsDict(json_data) THEN Out(Raise("TypeError"), json_data)
    ELSE IF "players" \notin Keys(json_data) THEN Out(Raise("KeyError"), json_data)
    ELSE LobbyDataPayload_set_players(json_data, PlayersFromJson(json_data.players))

\* the tanks of a decoded grid, and the ids of decoded players
TankOwners(tiles) ==
    UNION {UNION {{tiles[i][j][k].entity.owner_id :
                      k \in {n \in DOMAIN tiles[i][j] :
                                tiles[i][j][n].entity.cls = "RawTank"}} :
                  j \in DOMAIN tiles[i]} : i \in DOMAIN tiles}
PlayerIds(players) == {players[n].id : n \in DOMAIN players}
\* GameStatePayload_set_map with a check of the tank owners against the
\* players list before the payload is built
GameStatePayload_set_map_checked(j1, m) ==
    IF ~m.res.ok THEN Out(m.res, SetItem(j1, "map", m.json))
    ELSE IF ~(TankOwners(m.res.val.tiles) \subseteq PlayerIds(j1.players))
         THEN Out(Raise("ValueError"), SetItem(j1, "map", m.res.val))
         ELSE Out(New("GameStatePayload", {"id", "tick", "players", "map"}, {},
                      SetItem(j1, "map", m.res.val)),
                  SetItem(j1, "map", m.res.val))
\* json_data["map"] = m, the decoded map; return cls(**json_data)
GameStatePayload_set_map(j1, m) ==
    IF ~m.res.ok THEN Out(m.res, SetItem(j1, "map", m.json))
    ELSE Out(New("GameStatePayload", {"id", "tick", "players", "map"}, {},
                 SetItem(j1, "map", m.res.val)),
             SetItem(j1, "map", m.res.val))
\* json_data["players"] = p, the tuple of the decoded players
GameStatePayload_set_players(json_data, p) ==
    IF ~p.res.ok THEN Out(p.res, json_data)
    ELSE IF "map" \notin Keys(json_data)
         THEN Out(Raise("KeyError"), SetItem(json_data, "players", p.res.val))
         ELSE GameStatePayload_set_map(SetItem(json_data, "players", p.res.val),
                                       RawMap_from_json(json_data.map))
GameStatePayload_from_json(json_data) ==
    IF ~IsDict(json_data) THEN Out(Raise("TypeError"), json_data)
    ELSE IF "players" \notin Keys(json_data) THEN Out(Raise("KeyError"), json_data)
    ELSE GameStatePayload_set_players(json_data, PlayersFromJson(json_data.players))

\* json_data["players"] = p; return cls(**json_data)
GameEndPayload_set_players(json_data, p) ==
    IF ~p.res.ok THEN Out(p.res, json_data)
    ELSE Out(New("GameEndPayload", {"players"}, {},
                 SetItem(json_data, "players", p.res.val)),
             SetItem(json_data, "players", p.res.val))
GameEndPayload_from_json(json_data) ==
    IF ~IsDict(json_data) THEN Out(Raise("TypeError"), json_data)
    ELSE IF "players" \notin Keys(json_data) THEN Out(Raise("KeyError"), json_data)
    ELSE GameEndPayload_set_players(json_data, PlayersFromJson(json_data.players))

\* ------------------------------------------------------ response payloads
\* the generated __init__ of each response dataclass: no field has a default
\* SetAttr on a dataclass that is not frozen
SetAttr_unfrozen(obj, name, value) == Out(Return(NoneObj), SetItem(obj, name, value))
\* obj.name = value on an instance of a dataclass(frozen=True): the generated
\* __setattr__ raises and the instance stays as it is
SetAttr(obj, name, value) == Out(Raise("FrozenInstanceError"), obj)
TankMovementPayload(kwargs) ==
    New("TankMovementPayload", {"game_state_id", "direction"}, {}, kwargs)
\* TankRotationPayload with a __post_init__ that rejects two absent rotations
TankRotationPayload_checked(kwargs) ==
    IF /\ IsDict(kwargs)
       /\ Keys(kwargs) = {"game_state_id", "tank_rotation", "turret_rotation"}
       /\ kwargs.tank_rotation = None
       /\ kwargs.turret_rotation = None
    THEN Raise("ValueError")
    ELSE New("TankRotationPayload",
             {"game_state_id", "tank_rotation", "turret_rotation"}, {}, kwargs)
TankRotationPayload(kwargs) ==
    New("TankRotationPayload",
        {"game_state_id", "tank_rotation", "turret_rotation"}, {}, kwargs)
TankShootPayload(kwargs) == New("TankShootPayload", {"game_state_id"}, {}, kwargs)
ResponsePassPayload(kwargs) == New("ResponsePassPayload", {"game_state_id"}, {}, kwargs)

\* ------------------------------------------------------------- the inputs
\* The trees a caller can hand to the decoders: the documented wire shapes,
\* with optional fields present or missing, required fields missing, keys
\* the record does not declare, and tags inside and outside the known sets.
Restrict(f, S) == [k \in S |-> f[k]]
SeqsUpTo(S, n) == UNION {[1..k -> S] : k \in 0..n}

PlayerFull(id) ==
    [cls |-> "dict", id |-> id, nickname |-> "n", color |-> "1",
     score |-> "0", ping |-> "5", ticks_to_regen |-> "3", extra |-> "x"]
PlayerInputs ==
    {Restrict(PlayerFull(i), {"cls", "nickname", "color"} \cup S) :
        i \in {"p1", "p2"},
        S \in SUBSET {"id", "score", "ping", "ticks_to_regen", "extra"}}

TurretFull ==
    [cls |-> "dict", direction |-> "1", bullet_count |-> "0",
     ticks_to_regen_bullet |-> "2", extra |-> "x"]
TurretInputs ==
    {Restrict(TurretFull, {"cls"} \cup S) :
        S \in SUBSET {"direction", "bullet_count", "ticks_to_regen_bullet", "extra"}}

BulletFull ==
    [cls |-> "dict", id |-> "7", speed |-> "0", direction |-> "2", extra |-> "x"]
BulletInputs ==
    {Restrict(BulletFull, {"cls"} \cup S) :
        S \in SUBSET {"id", "speed", "direction", "extra"}}

WallInputs == {EmptyDict, [cls |-> "dict", extra |-> "x"]}

TurretMin == Restrict(TurretFull, {"cls", "direction"})
TurretNoDirection == Restrict(TurretFull, {"cls", "bullet_count"})
TurretExtra == Restrict(TurretFull, {"cls", "direction", "extra"})
TankFull(owner, turret) ==
    [cls |-> "dict", owner_id |-> owner, direction |-> "0", turret |-> turret,
     health |-> "0", extra |-> "x"]
TankInputs ==
    {Restrict(TankFull(o, t), {"cls", "direction"} \cup S) :
        o \in {"p1", "p2"},
        t \in {TurretMin, TurretFull, TurretNoDirection, TurretExtra,
               Restrict(TurretFull, {"cls", "direction", "bullet_count",
                                     "ticks_to_regen_bullet"})},
        S \in SUBSET {"owner_id", "turret", "health", "extra"}}
TankMin(owner) == Restrict(TankFull(owner, TurretMin),
                           {"cls", "owner_id", "direction", "turret"})

T_wall == <<"w","a","l","l">>
T_bullet == <<"b","u","l","l","e","t">>
T_tank == <<"t","a","n","k">>
T_drone == <<"d","r","o","n","e">>
\* the tags the wire protocol defines for tile occupants
OccupantTags == {T_wall, T_bullet, T_tank}
\* the tags tried: the protocol's, tags naming no class, tags whose class
\* name is another Raw... name of the module, and other spellings
Tags ==
    OccupantTags \cup
    {T_drone,
     <<"t","i","l","e","_","e","n","t","i","t","y">>,
     <<"t","i","l","e","_","o","b","j","e","c","t">>,
     <<"t","u","r","r","e","t">>, <<"z","o","n","e">>,
     <<"p","l","a","y","e","r">>, <<"m","a","p">>,
     <<"W","a","l","l">>, <<"W","A","L","L">>, <<"_","w","a","l","l">>,
     <<"t","i","l","e","E","n","t","i","t","y">>}
Payloads ==
    {EmptyDict, [cls |-> "dict", extra |-> "x"],
     Restrict(BulletFull, {"cls", "id"}),
     Restrict(BulletFull, {"cls", "id", "speed", "direction"}),
     Restrict(BulletFull, {"cls", "speed"}),
     TankMin("p1"),
     Restrict(TankFull("p1", TurretFull), {"cls", "owner_id", "direction", "turret", "health"}),
     Restrict(TankFull("p1", TurretMin), {"cls", "owner_id", "direction"}),
     Restrict(TankFull("p1", TurretNoDirection), {"cls", "owner_id", "direction", "turret"})}
TileObject(tag, payload) == [cls |-> "dict", type |-> tag, payload |-> payload]
TileObjectInputs ==
    LET full == {TileObject(t, pl) : t \in Tags, pl \in Payloads}
    IN  full \cup {Pop(o, "payload") : o \in full}
             \cup {Pop(o, "type") : o \in full}
             \cup {SetItem(o, "extra", "x") : o \in full}

StatusTags == {"neutral", "being_captured", "captured", "being_contested", "being_retaken"}
StatusFull(tag) ==
    [cls |-> "dict", type |-> tag, player_id |-> "p1", captured_by_id |-> "p2",
     retaken_by_id |-> "p3", remaining_ticks |-> "0", extra |-> "x"]
StatusInputs ==
    {Restrict(StatusFull(t), {"cls"} \cup S) :
        t \in StatusTags \cup {"bogus"},
        S \in SUBSET {"type", "player_id", "captured_by_id", "retaken_by_id",
                      "remaining_ticks", "extra"}}
ZoneFull(status) ==
    [cls |-> "dict", x |-> "0", y |-> "1", width |-> "2", height |-> "3",
     index |-> "0", status |-> status, player_id |-> "p9", extra |-> "x"]
ZoneKeys == {"cls", "x", "y", "width", "height", "index", "status"}
ZoneInputs ==
    {Restrict(ZoneFull(s), ZoneKeys) : s \in StatusInputs}
    \cup {Restrict(ZoneFull(s), K) :
            s \in {Restrict(StatusFull("neutral"), {"cls", "type"}),
                   Restrict(StatusFull("captured"), {"cls", "type", "player_id"})},
            K \in {ZoneKeys \ {"status"}, ZoneKeys \ {"x"}, ZoneKeys \cup {"extra"},
                   ZoneKeys \cup {"player_id"}}}

\* the occupants, zones and players put into maps and player lists: one that
\* decodes, and the ways its decoding can fail
MapOccupants ==
    {TileObject(T_wall, EmptyDict),
     TileObject(T_tank, TankMin("p1")),
     TileObject(T_tank, Restrict(TankFull("p1", TurretNoDirection),
                                 {"cls", "owner_id", "direction", "turret"})),
     TileObject(T_drone, EmptyDict)}
ZoneNeutral == Restrict(ZoneFull(Restrict(StatusFull("neutral"), {"cls", "type"})), ZoneKeys)
ZoneBogus == Restrict(ZoneFull(Restrict(StatusFull("bogus"), {"cls", "type"})), ZoneKeys)
ZoneNoStatus == Restrict(ZoneFull(EmptyDict), ZoneKeys \ {"status"})
MapZones == {ZoneNeutral, ZoneBogus, ZoneNoStatus}
PlayerMin(id) == Restrict(PlayerFull(id), {"cls", "id", "nickname", "color"})
ListedPlayers ==
    {PlayerMin("p1"),
     Restrict(PlayerFull("p2"), {"cls", "id", "nickname", "color", "score"}),
     Restrict(PlayerFull("p1"), {"cls", "nickname", "color"})}

TileInputs == SeqsUpTo(MapOccupants, MaxOcc)
\* the grids of a map without zones: no row, one row of one tile, two rows
\* of one tile
GridInputs ==
    {<<>>} \cup {<<<<t>>>> : t \in TileInputs}
           \cup {<<<<t1>>, <<t2>>>> : t1 \in TileInputs, t2 \in TileInputs}
\* the grids of a map with zones, and of a map inside a game state
SmallGridInputs == {<<>>} \cup {<<<<t>>>> : t \in TileInputs}
ZoneListInputs == SeqsUpTo(MapZones, MaxZones)
PlayerListInputs == SeqsUpTo(ListedPlayers, MaxPlayers)

MapJson(tiles, zones) ==
    [cls |-> "dict", tiles |-> tiles, zones |-> zones, visibility |-> <<"1">>]
GoodMap == MapJson(<<<<<<TileObject(T_wall, EmptyDict)>>>>>>, <<ZoneNeutral>>)
\* a well-formed mapping with one key missing or one undeclared key added
KeyVariants(j) == {Pop(j, k) : k \in Keys(j)} \cup {SetItem(j, "extra", "x")}
\* a map whose rows, tiles and zones differ from place to place: a row of
\* two tiles with one and two occupants, a row of one empty tile, and two
\* zones with the higher index first
OrderedMap ==
    MapJson(<< << <<TileObject(T_wall, EmptyDict)>>,
                  <<TileObject(T_tank, TankMin("p1")), TileObject(T_wall, EmptyDict)>> >>,
               << <<>> >> >>,
            <<SetItem(ZoneBogus, "index", "1"), ZoneNeutral>>)
MapInputs ==
    {MapJson(t, <<>>) : t \in GridInputs}
    \cup {MapJson(t, z) : t \in SmallGridInputs, z \in ZoneListInputs}
    \cup KeyVariants(GoodMap)
    \cup {OrderedMap}

GameStateJson(players, map) ==
    [cls |-> "dict", id |-> "g1", tick |-> "1", players |-> players, map |-> map]
GameStateInputs ==
    {GameStateJson(ps, MapJson(t, z)) :
        ps \in PlayerListInputs, t \in SmallGridInputs, z \in ZoneListInputs}
    \cup KeyVariants(GameStateJson(<<PlayerMin("p1")>>, GoodMap))
    \cup {GameStateJson(<<PlayerMin("p1")>>, m) : m \in KeyVariants(GoodMap)}

SettingsFull ==
    [cls |-> "dict", grid_dimension |-> "2", number_of_players |-> "1", seed |-> "0",
     ticks |-> "9", broadcast_interval |-> "1", eager_broadcast |-> "1"]
LobbyDataJson(me, players, settings) ==
    [cls |-> "dict", player_id |-> me, players |-> players, server_settings |-> settings]
LobbyDataInputs ==
    {LobbyDataJson(me, ps, s) :
        me \in {"p1", "p3"}, ps \in PlayerListInputs,
        s \in {SettingsFull} \cup KeyVariants(SettingsFull)}
    \cup KeyVariants(LobbyDataJson("p1", <<PlayerMin("p1")>>, SettingsFull))

GameEndInputs ==
    LET full == {[cls |-> "dict", players |-> ps] : ps \in PlayerListInputs}
    IN  full \cup {EmptyDict} \cup {SetItem(j, "extra", "x") : j \in full}

ConnectionRejectedInputs ==
    {[cls |-> "dict", reason |-> "r"], EmptyDict,
     [cls |-> "dict", reason |-> "r", extra |-> "x"]}

\* the keyword arguments a caller can give the response dataclasses
RotationValues == {None, "0", "1"}
ResponseFull(id, tank, turret) ==
    [cls |-> "dict", game_state_id |-> id, tank_rotation |-> tank,
     turret_rotation |-> turret, direction |-> "0"]
ResponseArgs(declared) ==
    {Restrict(ResponseFull(id, a, b), {"cls"} \cup S) :
        id \in {"g1", "g2"}, a \in RotationValues, b \in RotationValues,
        S \in SUBSET declared}

\* -------------------------------------------------------- the protocols
\* An object a caller tests with isinstance is [cls |-> "object", attrs, bases]:
\* attrs the names of the attributes set on it, bases the protocol classes
\* its class names as base classes.
\* the members of the runtime checkable protocols of the tile entities: the
\* annotated markers and the properties
ProtocolAttrs_no_tank_marker(p) ==
    CASE p = "PlayerTank" -> {"__instancecheck_tank__", "owner_id", "direction", "turret"}
      [] p = "AgentTank" ->
            {"__instancecheck_agenttank__", "owner_id", "direction", "turret", "health"}
      [] p = "Wall" -> {"__instancecheck_wall__"}
      [] p = "Bullet" -> {"__instancecheck_bullet__", "id", "speed", "direction"}
ProtocolAttrs(p) ==
    CASE p = "PlayerTank" -> {"__instancecheck_tank__", "owner_id", "direction", "turret"}
      [] p = "AgentTank" ->
            {"__instancecheck_tank__", "__instancecheck_agenttank__",
             "owner_id", "direction", "turret", "health"}
      [] p = "Wall" -> {"__instancecheck_wall__"}
      [] p = "Bullet" -> {"__instancecheck_bullet__", "id", "speed", "direction"}
Markers ==
    {"__instancecheck_tank__", "__instancecheck_agenttank__",
     "__instancecheck_wall__", "__instancecheck_bullet__"}
\* the members the protocol class itself holds as class attributes (its
\* properties; a marker is an annotation without a value)
Properties(p) == ProtocolAttrs(p) \ Markers
\* hasattr(obj, a): set on the object, or a property of a base class
Attrs(obj) == obj.attrs \cup UNION {Properties(b) : b \in obj.bases}
\* isinstance(obj, p) for a runtime checkable protocol p: the class of obj
\* names p as a base, or obj has every member of p
IsInstance(obj, p) == p \in obj.bases \/ ProtocolAttrs(p) \subseteq Attrs(obj)
\* Tile.entity, first pattern: Wall, then Bullet, then PlayerTank
EntityKind(obj) ==
    IF IsInstance(obj, "Wall") THEN "wall"
    ELSE IF IsInstance(obj, "Bullet") THEN "bullet"
    ELSE IF IsInstance(obj, "PlayerTank") THEN "tank"
    ELSE "none"
\* the second pattern with PlayerTank tested first
TankOwner_player_first(obj) ==
    IF IsInstance(obj, "PlayerTank") THEN "other"
    ELSE IF IsInstance(obj, "AgentTank") THEN "mine"
    ELSE "none"
\* Tile.entity, second pattern: AgentTank first, then PlayerTank
TankOwner(obj) ==
    IF IsInstance(obj, "AgentTank") THEN "mine"
    ELSE IF IsInstance(obj, "PlayerTank") THEN "other"
    ELSE "none"
\* what a caller learns of an entity from the four checks and the patterns
Checks(obj) ==
    [cls |-> "checks",
     Wall |-> IsInstance(obj, "Wall"), Bullet |-> IsInstance(obj, "Bullet"),
     PlayerTank |-> IsInstance(obj, "PlayerTank"),
     AgentTank |-> IsInstance(obj, "AgentTank"),
     entity |-> EntityKind(obj), tank |-> TankOwner(obj)]
\* the objects tested: every set of member names, on a plain class or on a
\* class that names one of the protocols as its base
EntityInputs ==
    {[cls |-> "object", attrs |-> a, bases |-> b] :
        a \in SUBSET (UNION {ProtocolAttrs(q) : q \in {"PlayerTank", "AgentTank", "Wall", "Bullet"}}),
        b \in {{}, {"PlayerTank"}, {"AgentTank"}, {"Wall"}, {"Bullet"}}}

\* -------------------------------------------------- the argument parser
\* A command line is a sequence of tokens: the four options of the parser,
\* the help option argparse adds, an option the parser does not know, a
\* word and a number.
ArgTokens == {"--host", "--port", "--code", "--nickname", "--help", "--bogus", "h1", "8080"}
\* a token argparse takes for an option string, not for a value
IsOption(tok) == tok \in {"--host", "--port", "--code", "--nickname", "--help", "--bogus"}
\* type=int: int(tok) for the tokens it converts
IntOf == [tok \in {"8080"} |-> 8080]
\* how a process that raised SystemExit(code) ends, help counting the times
\* the help text was printed
SysExit(code, help) ==
    [ok |-> FALSE, err |-> "SystemExit",
     val |-> [cls |-> "SystemExit", code |-> code, help |-> help]]
RECURSIVE parse_args(_, _, _)
\* parser.parse_args() on the tokens left, ns the namespace so far (given:
\* --nickname was seen) and extras the number of unrecognized arguments. An
\* error of the parser is SystemExit(2), the help action prints the help
\* and raises SystemExit(0).
parse_args(tokens, ns, extras) ==
    IF tokens = <<>>
    THEN IF ~ns.given \/ extras > 0 THEN SysExit(2, 0)
         ELSE Return([cls |-> "Namespace", host |-> ns.host, port |-> ns.port,
                      code |-> ns.code, nickname |-> ns.nickname])
    ELSE IF Head(tokens) = "--help" THEN SysExit(0, 1)
    ELSE IF ~IsOption(Head(tokens)) \/ Head(tokens) = "--bogus"
         THEN parse_args(Tail(tokens), ns, 1)
    ELSE IF Len(tokens) < 2 \/ IsOption(tokens[2]) THEN SysExit(2, 0)
    ELSE IF Head(tokens) = "--port"
         THEN IF tokens[2] \notin DOMAIN IntOf THEN SysExit(2, 0)
              ELSE parse_args(Tail(Tail(tokens)),
                              [ns EXCEPT !.port = IntOf[tokens[2]]], extras)
    ELSE IF Head(tokens) = "--host"
         THEN parse_args(Tail(Tail(tokens)), [ns EXCEPT !.host = tokens[2]], extras)
    ELSE IF Head(tokens) = "--code"
         THEN parse_args(Tail(Tail(tokens)), [ns EXCEPT !.code = tokens[2]], extras)
    ELSE parse_args(Tail(Tail(tokens)),
                    [ns EXCEPT !.nickname = tokens[2], !.given = TRUE], extras)
\* the defaults of the four add_argument calls
Defaults ==
    [host |-> "localhost", port |-> 5000, code |-> None, nickname |-> None,
     given |-> FALSE]
\* the except branch: print_help() and sys.exit(1); otherwise the Arguments
get_args_finish(args) ==
    IF ~args.ok THEN SysExit(1, args.val.help + 1)
    ELSE Return([cls |-> "Arguments", host |-> args.val.host, port |-> args.val.port,
                 code |-> args.val.code, nickname |-> args.val.nickname])
\* get_args without the except branch
get_args_uncaught(argv) == parse_args(argv, Defaults, 0)
get_args(argv) == get_args_finish(parse_args(argv, Defaults, 0))
ArgvInputs == UNION {[1..n -> ArgTokens] : n \in 0..MaxArgs}

\* ------------------------------------------------------------------ state
VARIABLES
    kind,      \* the class whose from_json (or constructor) the caller uses
    json,      \* the caller's input tree, as the calls so far have left it
    orig,      \* the input tree as it was handed in
    result,    \* the outcome of the last call
    first,     \* the outcome of the first call on this tree
    calls      \* the number of calls made on this tree
vars == <<kind, json, orig, result, first, calls>>

NoResult == [ok |-> FALSE, err |-> "not called", val |-> NoneObj]

Init ==
    /\ kind = "none"
    /\ json = EmptyDict
    /\ orig = EmptyDict
    /\ result = NoResult
    /\ first = NoResult
    /\ calls = 0

\* the caller holds no tree
Idle == kind = "none"
\* the caller holds a new input tree j for class k
Receive(k, j) ==
    /\ kind' = k
    /\ json' = j
    /\ orig' = j
    /\ result' = NoResult
    /\ first' = NoResult
    /\ calls' = 0

\* the caller calls k.from_json on its tree; r is what the call gives
Call(k, r) ==
    /\ kind = k
    /\ calls < MaxCalls
    /\ LET out == r
       IN  /\ result' = out.res
           /\ json' = out.json
           /\ first' = IF calls = 0 THEN out.res ELSE first
    /\ calls' = calls + 1
    /\ UNCHANGED <<kind, orig>>

ReceivePlayer == Idle /\ \E j \in PlayerInputs : Receive("RawPlayer", j)
ReceiveTurret == Idle /\ \E j \in TurretInputs : Receive("RawTurret", j)
ReceiveBullet == Idle /\ \E j \in BulletInputs : Receive("RawBullet", j)
ReceiveWall == Idle /\ \E j \in WallInputs : Receive("RawWall", j)
ReceiveTank == Idle /\ \E j \in TankInputs : Receive("RawTank", j)
ReceiveTileObject == Idle /\ \E j \in TileObjectInputs : Receive("RawTileObject", j)
ReceiveZone == Idle /\ \E j \in ZoneInputs : Receive("RawZone", j)
ReceiveMap == Idle /\ \E j \in MapInputs : Receive("RawMap", j)
ReceiveGameState ==
    Idle /\ \E j \in GameStateInputs : Receive("GameStatePayload", j)
ReceiveLobbyData ==
    Idle /\ \E j \in LobbyDataInputs : Receive("LobbyDataPayload", j)
ReceiveGameEnd == Idle /\ \E j \in GameEndInputs : Receive("GameEndPayload", j)
ReceiveConnectionRejected ==
    Idle /\ \E j \in ConnectionRejectedInputs : Receive("ConnectionRejectedPayload", j)
ChooseMovement ==
    Idle /\ \E a \in ResponseArgs({"game_state_id", "direction"}) :
                Receive("TankMovementPayload", a)
ChooseRotation ==
    Idle /\ \E a \in ResponseArgs({"game_state_id", "tank_rotation", "turret_rotation"}) :
                Receive("TankRotationPayload", a)
ChooseShoot ==
    Idle /\ \E a \in ResponseArgs({"game_state_id"}) : Receive("TankShootPayload", a)
ChoosePass ==
    Idle /\ \E a \in ResponseArgs({"game_state_id"}) : Receive("ResponsePassPayload", a)

ReceiveEntity == Idle /\ \E o \in EntityInputs : Receive("Entity", o)

DecodePlayer == Call("RawPlayer", RawPlayer_from_json(json))
DecodeTurret == Call("RawTurret", RawTurret_from_json(json))
DecodeBullet == Call("RawBullet", RawBullet_from_json(json))
DecodeWall == Call("RawWall", RawWall_from_json(json))
DecodeTank == Call("RawTank", RawTank_from_json(json))
DecodeTileObject == Call("RawTileObject", RawTileObject_from_json(json))
DecodeZone == Call("RawZone", RawZone_from_json(json))
DecodeMap == Call("RawMap", RawMap_from_json(json))
DecodeGameState == Call("GameStatePayload", GameStatePayload_from_json(json))
DecodeLobbyData == Call("LobbyDataPayload", LobbyDataPayload_from_json(json))
DecodeGameEnd == Call("GameEndPayload", GameEndPayload_from_json(json))
DecodeConnectionRejected ==
    Call("ConnectionRejectedPayload", ConnectionRejectedPayload_from_json(json))
ConstructMovement == Call("TankMovementPayload", Out(TankMovementPayload(json), json))
ConstructRotation == Call("TankRotationPayload", Out(TankRotationPayload(json), json))
ConstructShoot == Call("TankShootPayload", Out(TankShootPayload(json), json))
ConstructPass == Call("ResponsePassPayload", Out(ResponsePassPayload(json), json))
\* the caller tests the entity it holds with isinstance
CheckEntity == Call("Entity", Out(Return(Checks(json)), json))
\* the four response actions
ResponseKinds ==
    {"TankMovementPayload", "TankRotationPayload", "TankShootPayload",
     "ResponsePassPayload"}
\* the caller assigns to game_state_id of the response it constructed
AssignGameStateId ==
    /\ kind \in ResponseKinds
    /\ calls >= 1
    /\ calls < MaxCalls
    /\ first.ok
    /\ \E v \in {"g1", "g2"} :
          LET out == SetAttr(first.val, "game_state_id", v)
          IN  /\ result' = out.res
              /\ first' = [first EXCEPT !.val = out.json]
    /\ calls' = calls + 1
    /\ UNCHANGED <<kind, json, orig>>
\* the process starts with a command line and calls get_args once
StartProcess == Idle /\ \E a \in ArgvInputs : Receive("get_args", a)
GetArgs == calls = 0 /\ Call("get_args", Out(get_args(json), json))

\* the caller drops the tree and its result
Release ==
    /\ calls > 0
    /\ kind' = "none"
    /\ json' = EmptyDict
    /\ orig' = EmptyDict
    /\ result' = NoResult
    /\ first' = NoResult
    /\ calls' = 0

Next ==
    \/ ReceivePlayer \/ ReceiveTurret \/ ReceiveBullet \/ ReceiveWall
    \/ ReceiveTank \/ ReceiveTileObject \/ ReceiveZone \/ ReceiveMap
    \/ ReceiveGameState \/ ReceiveLobbyData \/ ReceiveGameEnd
    \/ ReceiveConnectionRejected
    \/ ChooseMovement \/ ChooseRotation \/ ChooseShoot \/ ChoosePass
    \/ DecodePlayer \/ DecodeTurret \/ DecodeBullet \/ DecodeWall
    \/ DecodeTank \/ DecodeTileObject \/ DecodeZone \/ DecodeMap
    \/ DecodeGameState \/ DecodeLobbyData \/ DecodeGameEnd
    \/ DecodeConnectionRejected
    \/ ConstructMovement \/ ConstructRotation \/ ConstructShoot \/ ConstructPass
    \/ ReceiveEntity \/ CheckEntity \/ AssignGameStateId
    \/ StartProcess \/ GetArgs
    \/ Release

Spec == Init /\ [][Next]_vars

\* ----------------------------------------------------------------- claims
\* from_json of class k on the mapping j, as a function of j alone
FromJson(k, j) ==
    CASE k = "RawPlayer" -> RawPlayer_from_json(j)
      [] k = "RawTurret" -> RawTurret_from_json(j)
      [] k = "RawBullet" -> RawBullet_from_json(j)
      [] k = "RawWall" -> RawWall_from_json(j)
      [] k = "RawTank" -> RawTank_from_json(j)
      [] k = "RawTileObject" -> RawTileObject_from_json(j)
      [] k = "RawZone" -> RawZone_from_json(j)
      [] k = "RawMap" -> RawMap_from_json(j)
      [] k = "GameStatePayload" -> GameStatePayload_from_json(j)
      [] k = "LobbyDataPayload" -> LobbyDataPayload_from_json(j)
      [] k = "GameEndPayload" -> GameEndPayload_from_json(j)
      [] k = "ConnectionRejectedPayload" -> ConnectionRejectedPayload_from_json(j)
\* the first call on the tree of class k has been made
Decoded(k) == kind = k /\ calls >= 1
StatusFields == {"player_id", "captured_by_id", "retaken_by_id", "remaining_ticks"}

\* C1: RawTileObject.from_json fails for every tag that is not wall, bullet
\* or tank.
C1_UnknownTagFails ==
    (Decoded("RawTileObject") /\ "type" \in Keys(orig) /\ orig.type \notin OccupantTags)
        => ~first.ok

\* C2: RawZone.from_json fails for every status tag outside the five
\* recognized ones.
C2_UnknownStatusFails ==
    (/\ Decoded("RawZone")
     /\ "status" \in Keys(orig)
     /\ "type" \in Keys(orig.status)
     /\ orig.status.type \notin StatusTags)
        => ~first.ok
\* C2 as amended: RawZone.from_json does not look at the status tag. A zone
\* whose status object has a type decodes exactly when its other keys are
\* the declared ones, whatever the tag, and the decoded status is the tag as
\* it stands on the wire.
C2_StatusTagNotChecked ==
    (Decoded("RawZone") /\ "status" \in Keys(orig) /\ "type" \in Keys(orig.status))
        => /\ first.ok <=>
                /\ {"x", "y", "width", "height", "index"} \subseteq Keys(orig)
                /\ Keys(orig) \subseteq
                      {"x", "y", "width", "height", "index", "status"} \cup StatusFields
           /\ first.ok => first.val.status = Str(orig.status.type)
C2_Witness ==
    /\ Decoded("RawZone")
    /\ first.ok
    /\ first.val.status.value = "bogus"

\* C3: a decoded being_captured zone has retaken_by_id None and a decoded
\* neutral zone has all four status fields None, whatever the wire carries.
C3_StatusFieldIsolation ==
    (Decoded("RawZone") /\ first.ok)
        => /\ first.val.status.value = "being_captured"
                => first.val.retaken_by_id = None
           /\ first.val.status.value = "neutral"
                => \A f \in StatusFields : first.val[f] = None
\* C3 as amended: whatever the status tag, each of the four status fields
\* of a decoded zone is the sub-field of that name of the wire status object
\* when the object carries it, and None when it does not.
C3_StatusFieldsCopied ==
    (Decoded("RawZone") /\ first.ok)
        => \A f \in StatusFields : first.val[f] = Get(orig.status, f, None)
C3_Witness ==
    /\ Decoded("RawZone")
    /\ first.ok
    /\ first.val.status.value = "being_captured"
    /\ first.val.retaken_by_id = "p3"
    /\ first.val.player_id = None

\* the places <<i, j, k>> of the occupants of a grid
Places(tiles) ==
    UNION {UNION {{<<i, j, k>> : k \in DOMAIN tiles[i][j]} :
                  j \in DOMAIN tiles[i]} : i \in DOMAIN tiles}
At(tiles, pl) == tiles[pl[1]][pl[2]][pl[3]]

\* C4: GameStatePayload.from_json never returns a payload with a tank whose
\* owner_id is the id of no player of the message.
C4_DanglingOwnerFails ==
    (Decoded("GameStatePayload") /\ first.ok)
        => TankOwners(first.val.map.tiles) \subseteq PlayerIds(first.val.players)
\* C4 as amended: GameStatePayload.from_json does not compare tank owners
\* with the players list. A game_state mapping decodes exactly when its keys
\* are id, tick, players and map and its players and its map decode, and
\* each decoded tank has the owner_id of the wire, listed or not.
C4_OwnerNotChecked ==
    Decoded("GameStatePayload")
        => /\ first.ok <=>
                /\ Keys(orig) = {"id", "tick", "players", "map"}
                /\ PlayersFromJson(orig.players).res.ok
                /\ RawMap_from_json(orig.map).res.ok
           /\ first.ok =>
                \A pl \in Places(orig.map.tiles) :
                    At(orig.map.tiles, pl).type = T_tank
                        => At(first.val.map.tiles, pl).entity.owner_id
                              = At(orig.map.tiles, pl).payload.owner_id
C4_Witness ==
    /\ Decoded("GameStatePayload")
    /\ first.ok
    /\ "p1" \in TankOwners(first.val.map.tiles)
    /\ "p1" \notin PlayerIds(first.val.players)

\* the decoders of the raw records and of the incoming payloads
RecordKinds ==
    {"RawPlayer", "RawTurret", "RawTank", "RawBullet", "RawWall", "RawZone", "RawMap",
     "LobbyDataPayload", "GameStatePayload", "GameEndPayload",
     "ConnectionRejectedPayload"}

\* C5: a mapping with all required fields and a key the record does not
\* declare decodes to the record the mapping without that key decodes to.
C5_ExtraKeysIgnored ==
    (/\ kind \in RecordKinds
     /\ calls >= 1
     /\ "extra" \in Keys(orig)
     /\ FromJson(kind, Pop(orig, "extra")).res.ok)
        => first = FromJson(kind, Pop(orig, "extra")).res
\* C5 as amended: for each of these decoders a mapping with a key the
\* record does not declare never decodes; when the mapping without the key
\* decodes, the failure is the TypeError of the dataclass constructor.
C5_ExtraKeyRejected ==
    (kind \in RecordKinds /\ calls >= 1 /\ "extra" \in Keys(orig))
        => /\ ~first.ok
           /\ FromJson(kind, Pop(orig, "extra")).res.ok => first.err = "TypeError"
C5_Witness ==
    /\ Decoded("RawPlayer")
    /\ "extra" \in Keys(orig)
    /\ FromJson(kind, Pop(orig, "extra")).res.ok
    /\ ~first.ok

FlatKinds ==
    {"RawPlayer", "RawTurret", "RawBullet", "RawWall", "ConnectionRejectedPayload"}

\* C6: every from_json leaves its input tree unchanged, and a second
\* decoding of the same tree gives the outcome of the first.
C6_DecodingIsPure ==
    (kind \in RecordKinds \cup {"RawTileObject"} /\ calls >= 1)
        => json = orig /\ result = first
\* C6 as amended: only the decoders of the flat records (player, turret,
\* bullet, wall, connection_rejected) leave their input unchanged and repeat
\* their outcome. RawTileObject.from_json removes the type key from its
\* input and RawZone.from_json removes or replaces the status key, and a
\* second call on the same mapping always fails. A tank, game_state or lobby
\* mapping that decoded holds decoded records afterwards and does not decode
\* again; a map that decoded does not decode again unless it has no
\* occupant and no zone.
C6_OnlyFlatDecodersPure ==
    /\ (kind \in FlatKinds /\ calls >= 1) => (json = orig /\ result = first)
    /\ (Decoded("RawTileObject") /\ "type" \in Keys(orig)) => "type" \notin Keys(json)
    /\ (kind = "RawTileObject" /\ calls >= 2) => (~result.ok /\ result.err = "KeyError")
    /\ (Decoded("RawZone") /\ "status" \in Keys(orig)) => json # orig
    /\ (kind = "RawZone" /\ calls >= 2) => ~result.ok
    /\ (Decoded("RawTank") /\ first.ok) => json # orig
    /\ (kind \in {"RawTank", "GameStatePayload", "LobbyDataPayload"}
            /\ first.ok /\ calls >= 2) => ~result.ok
    /\ (kind = "RawMap" /\ first.ok /\ calls >= 2
            /\ (Places(orig.tiles) # {} \/ orig.zones # <<>>)) => ~result.ok
C6_Witness ==
    /\ kind = "RawTileObject"
    /\ calls = 2
    /\ first.ok
    /\ first.val.entity.cls = "RawWall"
    /\ ~result.ok
    /\ json # orig

\* C7: no TankRotationPayload with tank_rotation and turret_rotation both
\* None can be constructed.
C7_BothAbsentRejected ==
    (Decoded("TankRotationPayload") /\ first.ok)
        => ~(first.val.tank_rotation = None /\ first.val.turret_rotation = None)
\* C7 as amended: TankRotationPayload checks no combination. Constructing it
\* succeeds exactly when game_state_id, tank_rotation and turret_rotation
\* are all given, for every pair of rotation values, two None included, and
\* the payload carries the values given.
C7_RotationsNotChecked ==
    Decoded("TankRotationPayload")
        => /\ first.ok <=>
                Keys(orig) = {"game_state_id", "tank_rotation", "turret_rotation"}
           /\ first.ok =>
                /\ first.val.tank_rotation = orig.tank_rotation
                /\ first.val.turret_rotation = orig.turret_rotation
                /\ first.val.game_state_id = orig.game_state_id
C7_Witness ==
    /\ Decoded("TankRotationPayload")
    /\ first.ok
    /\ first.val.tank_rotation = None
    /\ first.val.turret_rotation = None

\* C8: decoding a map or a game state is all or nothing. If the decoding of
\* an occupant, of the turret of a tank, of a zone or of a player fails, the
\* whole call fails; a returned map holds the decoded value of every
\* occupant and every zone of the input, a returned game state the decoded
\* value of every player and of the map.
C8_AllOrNothing ==
    /\ (Decoded("RawMap") /\ {"tiles", "zones"} \subseteq Keys(orig))
        => /\ (\E pl \in Places(orig.tiles) :
                  ~RawTileObject_from_json(At(orig.tiles, pl)).res.ok) => ~first.ok
           /\ (\E pl \in Places(orig.tiles) :
                  /\ At(orig.tiles, pl).type = T_tank
                  /\ "turret" \in Keys(At(orig.tiles, pl).payload)
                  /\ ~RawTurret_from_json(At(orig.tiles, pl).payload.turret).res.ok)
                => ~first.ok
           /\ (\E n \in DOMAIN orig.zones :
                  ~RawZone_from_json(orig.zones[n]).res.ok) => ~first.ok
           /\ first.ok =>
                /\ Places(first.val.tiles) = Places(orig.tiles)
                /\ \A pl \in Places(orig.tiles) :
                      Return(At(first.val.tiles, pl))
                          = RawTileObject_from_json(At(orig.tiles, pl)).res
                /\ DOMAIN first.val.zones = DOMAIN orig.zones
                /\ \A n \in DOMAIN orig.zones :
                      Return(first.val.zones[n]) = RawZone_from_json(orig.zones[n]).res
    /\ (Decoded("GameStatePayload") /\ {"players", "map"} \subseteq Keys(orig))
        => /\ (\E n \in DOMAIN orig.players :
                  ~RawPlayer_from_json(orig.players[n]).res.ok) => ~first.ok
           /\ ~RawMap_from_json(orig.map).res.ok => ~first.ok
           /\ first.ok =>
                /\ Return(first.val.map) = RawMap_from_json(orig.map).res
                /\ DOMAIN first.val.players = DOMAIN orig.players
                /\ \A n \in DOMAIN orig.players :
                      Return(first.val.players[n])
                          = RawPlayer_from_json(orig.players[n]).res
C8_Witness ==
    /\ Decoded("RawMap")
    /\ {"tiles", "zones"} \subseteq Keys(orig)
    /\ Len(orig.tiles) = 2
    /\ Len(orig.tiles[1][1]) >= 1
    /\ Len(orig.tiles[2][1]) >= 1
    /\ RawTileObject_from_json(orig.tiles[1][1][1]).res.ok
    /\ ~RawTileObject_from_json(orig.tiles[2][1][1]).res.ok
    /\ ~first.ok

\* the fields each dataclass declares without a default, and the keys the
\* decoders read before they build the record
RequiredKeys(k) ==
    CASE k = "RawPlayer" -> {"id", "nickname", "color"}
      [] k = "RawTurret" -> {"direction"}
      [] k = "RawBullet" -> {"id"}
      [] k = "RawWall" -> {}
      [] k = "RawTank" -> {"owner_id", "direction", "turret"}
      [] k = "RawTileObject" -> {"type"}
      [] k = "RawZone" -> {"x", "y", "width", "height", "index", "status"}
      [] k = "RawMap" -> {"tiles", "zones", "visibility"}
      [] k = "GameStatePayload" -> {"id", "tick", "players", "map"}
      [] k = "LobbyDataPayload" -> {"player_id", "players", "server_settings"}
      [] k = "GameEndPayload" -> {"players"}
      [] k = "ConnectionRejectedPayload" -> {"reason"}

\* C9: a record without one of its required fields never decodes: a zone
\* without status or with a status without type, a tank without turret, a
\* player or a bullet without id, a bullet or tank occupant without payload,
\* and any other record without a required key.
C9_MissingRequiredFails ==
    /\ (/\ kind \in RecordKinds \cup {"RawTileObject"}
        /\ calls >= 1
        /\ ~(RequiredKeys(kind) \subseteq Keys(orig))) => ~first.ok
    /\ (Decoded("RawZone") /\ "status" \in Keys(orig) /\ "type" \notin Keys(orig.status))
        => ~first.ok
    /\ (/\ Decoded("RawTileObject")
        /\ "type" \in Keys(orig)
        /\ orig.type \in {T_bullet, T_tank}
        /\ "payload" \notin Keys(orig)) => ~first.ok
    /\ (/\ Decoded("LobbyDataPayload")
        /\ "server_settings" \in Keys(orig)
        /\ Keys(orig.server_settings) # Keys(SettingsFull)) => ~first.ok
C9_Witness ==
    /\ Decoded("RawTank")
    /\ Keys(orig) = {"owner_id", "direction"}
    /\ ~first.ok

\* the scalar fields of the records, and those that have a default
ScalarFields(k) ==
    CASE k = "RawPlayer" -> {"id", "nickname", "color", "score", "ping", "ticks_to_regen"}
      [] k = "RawTurret" -> {"direction", "bullet_count", "ticks_to_regen_bullet"}
      [] k = "RawBullet" -> {"id", "speed", "direction"}
      [] k = "RawTank" -> {"owner_id", "direction", "health"}
      [] k = "RawZone" -> {"x", "y", "width", "height", "index"}
      [] k = "GameStatePayload" -> {"id", "tick"}
      [] k = "LobbyDataPayload" -> {"player_id"}
      [] k = "ConnectionRejectedPayload" -> {"reason"}
      [] OTHER -> {}
OptionalFields ==
    {"score", "ping", "ticks_to_regen", "bullet_count", "ticks_to_regen_bullet",
     "health", "speed"}
\* record field f holds what mapping j has under f, or None when j has no f
\* and f has a default
Carries(rec, k, j, f) ==
    IF f \in Keys(j) THEN rec[f] = j[f]
    ELSE /\ rec[f] = None
         /\ f \in OptionalFields \/ (k = "RawBullet" /\ f = "direction")

\* C10: in a decoded record every field of the input has the input's value
\* and every optional field missing from the input is None (not 0, not the
\* empty string).
C10_InputFieldsKept ==
    (kind \in RecordKinds \cup {"RawTileObject"} /\ calls >= 1 /\ first.ok)
        => /\ \A f \in ScalarFields(kind) : Carries(first.val, kind, orig, f)
           /\ kind = "RawZone" =>
                \A f \in StatusFields :
                    IF f \in Keys(orig) THEN first.val[f] = orig[f]
                    ELSE IF f \in Keys(orig.status) THEN first.val[f] = orig.status[f]
                    ELSE first.val[f] = None
\* C10 as amended: in a decoded record every scalar field of the input has
\* the input's value and every optional field missing from the input is None
\* (not 0, not the empty string); the turret of a tank is decoded the same
\* way. The status of a decoded zone is the type of the wire status object,
\* and its four status fields are read from that object alone: a key of one
\* of these names at the top level of the zone mapping is overwritten, by
\* the sub-field when the status object has it and by None when it has not.
C10_FieldsCopied ==
    (kind \in RecordKinds \cup {"RawTileObject"} /\ calls >= 1 /\ first.ok)
        => /\ \A f \in ScalarFields(kind) : Carries(first.val, kind, orig, f)
           /\ kind = "RawZone" =>
                /\ first.val.status.value = orig.status.type
                /\ \A f \in StatusFields :
                      first.val[f] = IF f \in Keys(orig.status) THEN orig.status[f]
                                     ELSE None
           /\ kind = "RawTank" =>
                \A f \in ScalarFields("RawTurret") :
                    Carries(first.val.turret, "RawTurret", orig.turret, f)
           /\ kind = "RawTileObject" => first.val.type = orig.type
C10_Witness ==
    /\ Decoded("RawZone")
    /\ first.ok
    /\ "player_id" \in Keys(orig)
    /\ orig.player_id = "p9"
    /\ first.val.player_id = "p1"
    /\ first.val.captured_by_id = None
    /\ first.val.index = orig.index

C13_NarrowingNeedsMarker ==
    Decoded("Entity")
        => /\ Attrs(orig) = ProtocolAttrs("PlayerTank")
                => (first.val.PlayerTank /\ ~first.val.AgentTank
                        /\ first.val.tank = "other")
           /\ ("__instancecheck_agenttank__" \notin Attrs(orig)
                    /\ "AgentTank" \notin orig.bases) => ~first.val.AgentTank
           /\ Attrs(orig) \in {ProtocolAttrs("Wall"), ProtocolAttrs("Bullet")}
                => (~first.val.PlayerTank /\ ~first.val.AgentTank
                        /\ first.val.tank = "none")
           /\ (first.val.Wall \/ first.val.Bullet)
                    /\ ~(first.val.PlayerTank \/ first.val.AgentTank)
                => first.val.tank = "none"
           /\ (first.val.PlayerTank \/ first.val.AgentTank)
                <=> first.val.tank \in {"mine", "other"}
           /\ first.val.tank = "mine" <=> first.val.AgentTank
           /\ first.val.tank = "other"
                <=> (first.val.PlayerTank /\ ~first.val.AgentTank)
C13_Witness ==
    /\ Decoded("Entity")
    /\ orig.bases = {}
    /\ orig.attrs = ProtocolAttrs("PlayerTank")
    /\ first.val.PlayerTank
    /\ ~first.val.AgentTank
    /\ first.val.tank = "other"

\* C14: every decoded lobby_data payload has a player_id that is the id of a
\* player of its players list; from_json fails when it is not.
C14_OwnIdListed ==
    (Decoded("LobbyDataPayload") /\ first.ok)
        => first.val.player_id \in PlayerIds(first.val.players)
\* C14 as amended: LobbyDataPayload.from_json does not compare player_id
\* with the players list. A lobby_data mapping decodes exactly when its keys
\* are player_id, players and server_settings, its players decode and its
\* server settings have exactly the declared keys; the payload carries the
\* player_id of the wire, listed or not.
C14_OwnIdNotChecked ==
    Decoded("LobbyDataPayload")
        => /\ first.ok <=>
                /\ Keys(orig) = {"player_id", "players", "server_settings"}
                /\ PlayersFromJson(orig.players).res.ok
                /\ Keys(orig.server_settings) = Keys(SettingsFull)
           /\ first.ok => first.val.player_id = orig.player_id
C14_Witness ==
    /\ Decoded("LobbyDataPayload")
    /\ first.ok
    /\ first.val.player_id = "p3"
    /\ Len(first.val.players) >= 1
    /\ "p3" \notin PlayerIds(first.val.players)

\* C15: a decoded map has the order and the shape of the wire: as many rows,
\* as many tiles in each row and as many occupants in each tile as the
\* input, the occupant at [i][j][k] decoded from the input element at
\* [i][j][k], and as many zones as the input with zone n decoded from input
\* zone n, in input order whatever the indexes.
C15_OrderAndShape ==
    (Decoded("RawMap") /\ first.ok)
        => /\ Len(first.val.tiles) = Len(orig.tiles)
           /\ \A i \in DOMAIN orig.tiles :
                /\ Len(first.val.tiles[i]) = Len(orig.tiles[i])
                /\ \A j \in DOMAIN orig.tiles[i] :
                     /\ Len(first.val.tiles[i][j]) = Len(orig.tiles[i][j])
                     /\ \A k \in DOMAIN orig.tiles[i][j] :
                          /\ first.val.tiles[i][j][k].type = orig.tiles[i][j][k].type
                          /\ first.val.tiles[i][j][k]
                                = RawTileObject_from_json(orig.tiles[i][j][k]).res.val
           /\ Len(first.val.zones) = Len(orig.zones)
           /\ \A n \in DOMAIN orig.zones :
                /\ first.val.zones[n].index = orig.zones[n].index
                /\ first.val.zones[n] = RawZone_from_json(orig.zones[n]).res.val
C15_Witness ==
    /\ Decoded("RawMap")
    /\ first.ok
    /\ Len(first.val.tiles) = 2
    /\ Len(first.val.tiles[1]) = 2
    /\ Len(first.val.tiles[2]) = 1
    /\ Len(first.val.tiles[1][2]) = 2
    /\ first.val.tiles[1][1][1].entity.cls = "RawWall"
    /\ first.val.tiles[1][2][1].entity.cls = "RawTank"
    /\ first.val.tiles[2][1] = <<>>
    /\ Len(first.val.zones) = 2
    /\ first.val.zones[1].index = "1"
    /\ first.val.zones[2].index = "0"

\* C16: every response action carries a game_state_id. None of the four
\* payloads is constructed without one, a constructed payload carries the id
\* passed to the constructor, and it still carries it after an assignment to
\* the field has been tried, which fails.
C16_CarriesGameStateId ==
    (kind \in ResponseKinds /\ calls >= 1)
        => /\ "game_state_id" \notin Keys(orig) => ~first.ok
           /\ first.ok =>
                /\ "game_state_id" \in DOMAIN first.val
                /\ first.val.game_state_id = orig.game_state_id
           /\ result.ok => result.val = first.val
C16_Witness ==
    /\ kind = "TankMovementPayload"
    /\ calls = 2
    /\ first.ok
    /\ result.err = "FrozenInstanceError"
    /\ orig.game_state_id = "g2"
    /\ first.val.game_state_id = "g2"

\* the places of a command line where --nickname is followed by a value
NicknamePlaces(argv) ==
    {i \in 1..(Len(argv) - 1) : argv[i] = "--nickname" /\ ~IsOption(argv[i + 1])}
\* C17: get_args has two outcomes. It returns Arguments with the nickname
\* given on the command line, host localhost, port 5000 and code None when
\* their options are not given; or it prints the help text and the process
\* exits with status 1. It exits so for a missing --nickname, a --port that
\* is no integer, an unknown option and a --help; Arguments is never
\* returned without a nickname.
C17_TwoOutcomes ==
    Decoded("get_args")
        => /\ \/ /\ first.ok
                 /\ first.val.cls = "Arguments"
                 /\ NicknamePlaces(orig) # {}
                 /\ \E i \in NicknamePlaces(orig) : first.val.nickname = orig[i + 1]
                 /\ first.val.nickname # None
                 /\ "--host" \notin Range(orig) => first.val.host = "localhost"
                 /\ "--port" \notin Range(orig) => first.val.port = 5000
                 /\ "--code" \notin Range(orig) => first.val.code = None
              \/ /\ ~first.ok
                 /\ first.err = "SystemExit"
                 /\ first.val.code = 1
                 /\ first.val.help >= 1
           /\ ("--nickname" \notin Range(orig) \/ "--help" \in Range(orig)
                    \/ "--bogus" \in Range(orig)) => ~first.ok
           /\ (\E i \in 1..(Len(orig) - 1) : orig[i] = "--port" /\ orig[i + 1] = "h1")
                => ~first.ok
C17_Witness ==
    /\ Decoded("get_args")
    /\ orig = <<"--nickname", "h1", "--port", "8080">>
    /\ first.ok
    /\ first.val.nickname = "h1"
    /\ first.val.port = 8080
    /\ first.val.host = "localhost"
    /\ first.val.code = None

====
